---- MODULE Spec2Model ----
(***************************************************************************)
(* Model of src/main.rs: the piece decoder Piece::from_char, the FEN       *)
(* decoder Board::from_fen and the default constructor Board::new.         *)
(*                                                                         *)
(* A char is its Unicode scalar value (a natural number), a String is a    *)
(* sequence of chars, Option<T> is a sequence of length 0 (None) or 1      *)
(* (Some), and a panic is an outcome of its own, distinct from Ok and Err. *)
(***************************************************************************)
EXTENDS Integers, Sequences, FiniteSets, TLC

(***************************************************************************)
(* Bounds of the explored inputs.                                          *)
(***************************************************************************)
MaxChar == 255
MaxDescLen == 2
MaxRanks == 9
MaxMetaLen == 3

(***************************************************************************)
(* Character literals: the scalar value of a one-character string.         *)
(***************************************************************************)
Lower == <<"a","b","c","d","e","f","g","h","i","j","k","l","m",
           "n","o","p","q","r","s","t","u","v","w","x","y","z">>
Upper == <<"A","B","C","D","E","F","G","H","I","J","K","L","M",
           "N","O","P","Q","R","S","T","U","V","W","X","Y","Z">>
Digits == <<"0","1","2","3","4","5","6","7","8","9">>

CharNames ==
    {Lower[i] : i \in DOMAIN Lower} \cup {Upper[i] : i \in DOMAIN Upper}
        \cup {Digits[i] : i \in DOMAIN Digits} \cup {" ", "+", "-", ".", "/"}

Ord ==
    [ch \in CharNames |->
        IF \E i \in DOMAIN Lower : Lower[i] = ch
        THEN 96 + (CHOOSE i \in DOMAIN Lower : Lower[i] = ch)
        ELSE IF \E i \in DOMAIN Upper : Upper[i] = ch
        THEN 64 + (CHOOSE i \in DOMAIN Upper : Upper[i] = ch)
        ELSE IF \E i \in DOMAIN Digits : Digits[i] = ch
        THEN 47 + (CHOOSE i \in DOMAIN Digits : Digits[i] = ch)
        ELSE CASE ch = " " -> 32
               [] ch = "+" -> 43
               [] ch = "-" -> 45
               [] ch = "." -> 46
               [] ch = "/" -> 47]

Str(s) == [i \in 1..Len(s) |-> Ord[s[i]]]

(***************************************************************************)
(* std: char classification and conversion, by scalar value.               *)
(***************************************************************************)
is_ascii_uppercase(c) == c >= 65 /\ c <= 90

is_ascii_lowercase(c) == c >= 97 /\ c <= 122

to_ascii_lowercase(c) == IF is_ascii_uppercase(c) THEN c + 32 ELSE c

is_ascii_digit(c) == c >= 48 /\ c <= 57

to_digit(c) == c - 48

is_ascii_alphabetic_skip(c) == ~ is_ascii_digit(c)

is_ascii_alphabetic(c) == is_ascii_uppercase(c) \/ is_ascii_lowercase(c)

(***************************************************************************)
(* enum Color, enum Piece, Option<Piece>.                                  *)
(***************************************************************************)
Color == {"White", "Black"}

PieceKind == {"Rook", "Queen", "King", "Pawn", "Bishop", "Knight"}

Piece(kind, color) == [kind |-> kind, color |-> color]

None == << >>

Some(x) == <<x>>

(***************************************************************************)
(* Piece::from_char                                                        *)
(***************************************************************************)
from_char_swapped(c) ==
    LET color == IF is_ascii_uppercase(c) THEN "Black" ELSE "White"
        l == to_ascii_lowercase(c)
    IN  CASE l = Ord["p"] -> Some(Piece("Pawn", color))
          [] l = Ord["r"] -> Some(Piece("Rook", color))
          [] l = Ord["n"] -> Some(Piece("Knight", color))
          [] l = Ord["b"] -> Some(Piece("Bishop", color))
          [] l = Ord["q"] -> Some(Piece("Queen", color))
          [] l = Ord["k"] -> Some(Piece("King", color))
          [] OTHER -> None

from_char_default_pawn(c) ==
    LET color == IF is_ascii_uppercase(c) THEN "White" ELSE "Black"
        l == to_ascii_lowercase(c)
    IN  CASE l = Ord["r"] -> Some(Piece("Rook", color))
          [] l = Ord["n"] -> Some(Piece("Knight", color))
          [] l = Ord["b"] -> Some(Piece("Bishop", color))
          [] l = Ord["q"] -> Some(Piece("Queen", color))
          [] l = Ord["k"] -> Some(Piece("King", color))
          [] OTHER -> Some(Piece("Pawn", color))

from_char(c) ==
    LET color == IF is_ascii_uppercase(c) THEN "White" ELSE "Black"
        l == to_ascii_lowercase(c)
    IN  CASE l = Ord["p"] -> Some(Piece("Pawn", color))
          [] l = Ord["r"] -> Some(Piece("Rook", color))
          [] l = Ord["n"] -> Some(Piece("Knight", color))
          [] l = Ord["b"] -> Some(Piece("Bishop", color))
          [] l = Ord["q"] -> Some(Piece("Queen", color))
          [] l = Ord["k"] -> Some(Piece("King", color))
          [] OTHER -> None

(***************************************************************************)
(* str::split_once(' ') and str::split('/').                               *)
(***************************************************************************)
Positions(s, ch) == {i \in 1..Len(s) : s[i] = ch}

Min(S) == CHOOSE x \in S : \A y \in S : x <= y

Max(S) == CHOOSE x \in S : \A y \in S : x >= y

rsplit_once(s, ch) ==
    IF Positions(s, ch) = {} THEN None
    ELSE LET i == Max(Positions(s, ch))
         IN  Some(<<SubSeq(s, 1, i - 1), SubSeq(s, i + 1, Len(s))>>)

split_once(s, ch) ==
    IF Positions(s, ch) = {} THEN None
    ELSE LET i == Min(Positions(s, ch))
         IN  Some(<<SubSeq(s, 1, i - 1), SubSeq(s, i + 1, Len(s))>>)

RECURSIVE rsplit(_, _)
rsplit(s, ch) ==
    IF Positions(s, ch) = {} THEN <<s>>
    ELSE LET i == Max(Positions(s, ch))
         IN  <<SubSeq(s, i + 1, Len(s))>> \o rsplit(SubSeq(s, 1, i - 1), ch)

RECURSIVE split(_, _)
split(s, ch) ==
    IF Positions(s, ch) = {} THEN <<s>>
    ELSE LET i == Min(Positions(s, ch))
         IN  <<SubSeq(s, 1, i - 1)>> \o split(SubSeq(s, i + 1, Len(s)), ch)

(***************************************************************************)
(* Outcomes.  A Vec being built is [panic, val]: panic is "" while the     *)
(* code runs and names the failed unwrap or assertion once it aborted.     *)
(* The outcome of from_fen is Ok(Board), Err(message) or a panic.          *)
(***************************************************************************)
Running(val) == [panic |-> "", val |-> val]

Aborted(msg) == [panic |-> msg, val |-> << >>]

Board(content, metadata) == [content |-> content, metadata |-> metadata]

NoBoard == Board(<< >>, << >>)

Ok(board) == [kind |-> "Ok", board |-> board, msg |-> ""]

Err(msg) == [kind |-> "Err", board |-> NoBoard, msg |-> msg]

Panic(msg) == [kind |-> "Panic", board |-> NoBoard, msg |-> msg]

Pending == [kind |-> "Pending", board |-> NoBoard, msg |-> ""]

(***************************************************************************)
(* The closure of row.chars().for_each: one character of a rank            *)
(* descriptor.                                                             *)
(***************************************************************************)
empty_places_one(digit) == <<None>>

empty_places(digit) == [i \in 1..digit |-> None]

push_piece_skip(row_array, c) ==
    IF from_char(c) = None THEN row_array ELSE Append(row_array, from_char(c))

push_piece(row_array, c) == Append(row_array, from_char(c))

scan_char(row_array, c) ==
    IF is_ascii_digit(c)
    THEN LET digit == to_digit(c)
         IN  IF ~ (digit > 0 /\ digit <= 8)
             THEN Aborted("assert_digit")
             ELSE Running(row_array \o empty_places(digit))
    ELSE IF is_ascii_alphabetic(c)
    THEN Running(push_piece(row_array, c))
    ELSE Running(row_array)

RECURSIVE for_each(_, _, _)
for_each(row, i, row_array) ==
    IF i > Len(row) THEN Running(row_array)
    ELSE LET r == scan_char(row_array, row[i])
         IN  IF r.panic # "" THEN r ELSE for_each(row, i + 1, r.val)

(***************************************************************************)
(* The closure of rows.map: one rank descriptor to a Row ([_; 8]).         *)
(***************************************************************************)
map_row(row) ==
    LET r == for_each(row, 1, << >>)
    IN  IF r.panic # "" THEN r
        ELSE IF Len(r.val) # 8 THEN Aborted("unwrap_row")
        ELSE r

RECURSIVE collect(_, _, _)
collect(rows, i, acc) ==
    IF i > Len(rows) THEN Running(acc)
    ELSE LET r == map_row(rows[i])
         IN  IF r.panic # "" THEN r ELSE collect(rows, i + 1, Append(acc, r.val))

(***************************************************************************)
(* Board::from_fen, Board::new                                             *)
(***************************************************************************)
from_fen(pgn) ==
    LET a == split_once(pgn, Ord[" "])
    IN  IF a = None THEN Panic("unwrap_none")
        ELSE LET rows_string == a[1][1]
                 metadata == a[1][2]
                 rows == split(rows_string, Ord["/"])
                 row_array == collect(rows, 1, << >>)
             IN  IF row_array.panic # "" THEN Panic(row_array.panic)
                 ELSE IF Len(row_array.val) # 8 THEN Panic("unwrap_board")
                 ELSE Ok(Board(row_array.val, metadata))

unwrap(result) == IF result.kind = "Ok" THEN result ELSE Panic("unwrap_err")

INITIAL_FEN ==
    Str(<<"r","n","b","q","k","b","n","r","/",
          "p","p","p","p","p","p","p","p","/",
          "8","/","8","/","8","/","8","/",
          "P","P","P","P","P","P","P","P","/",
          "R","N","B","Q","K","B","N","R",
          " ","w"," ","K","Q","k","q"," ","-"," ","0"," ","1">>)

new == unwrap(from_fen(INITIAL_FEN))

(***************************************************************************)
(* Inputs.  Every text is a possible argument of from_fen; the explored    *)
(* ones are the two reference positions with one rank descriptor replaced, *)
(* with one character inserted or deleted, with another number of rank     *)
(* descriptors, and with another metadata tail (or none).                  *)
(***************************************************************************)
EMPTY_FEN ==
    Str(<<"8","/","8","/","8","/","8","/","8","/","8","/","8","/","8",
          " ","w"," ","-"," ","-"," ","0"," ","1">>)

Bases == {INITIAL_FEN, EMPTY_FEN}

SeqsUpTo(A, n) == UNION {[1..k -> A] : k \in 0..n}

DescAlphabet ==
    {Ord["p"], Ord["K"], Ord["x"], Ord["M"], Ord["0"], Ord["1"], Ord["4"],
     Ord["7"], Ord["8"], Ord["9"], Ord["-"]}

EditAlphabet == DescAlphabet \cup {Ord["."], Ord["+"], Ord["/"], Ord[" "], 233}

MetaAlphabet == {Ord["w"], Ord[" "], Ord["-"]}

RECURSIVE Join(_, _)
Join(descs, ch) ==
    IF descs = << >> THEN << >>
    ELSE IF Len(descs) = 1 THEN descs[1]
    ELSE descs[1] \o <<ch>> \o Join(SubSeq(descs, 2, Len(descs)), ch)

BaseField(base) == SubSeq(base, 1, Min(Positions(base, Ord[" "])) - 1)

BaseMeta(base) == SubSeq(base, Min(Positions(base, Ord[" "])), Len(base))

BaseDescs(base) == split(BaseField(base), Ord["/"])

ReplacedDesc ==
    {Join([BaseDescs(base) EXCEPT ![i] = d], Ord["/"]) \o BaseMeta(base) :
        base \in Bases, i \in 1..8, d \in SeqsUpTo(DescAlphabet, MaxDescLen)}

InsertedChar ==
    UNION {{SubSeq(base, 1, k) \o <<ch>> \o SubSeq(base, k + 1, Len(base)) :
                k \in 0..Len(base), ch \in EditAlphabet} : base \in Bases}

DeletedChar ==
    UNION {{SubSeq(base, 1, k - 1) \o SubSeq(base, k + 1, Len(base)) :
                k \in 1..Len(base)} : base \in Bases}

RankCount ==
    {Join([i \in 1..n |-> IF i <= 8 THEN BaseDescs(base)[i] ELSE <<Ord["8"]>>],
          Ord["/"]) \o BaseMeta(base) :
        base \in Bases, n \in 0..MaxRanks}

OtherMeta ==
    {BaseField(EMPTY_FEN) \o sep \o meta :
        sep \in {<< >>, <<Ord[" "]>>}, meta \in SeqsUpTo(MetaAlphabet, MaxMetaLen)}

Inputs == Bases \cup ReplacedDesc \cup InsertedChar \cup DeletedChar
                \cup RankCount \cup OtherMeta

Chars == 0..MaxChar

(***************************************************************************)
(* State: one call of one of the three functions and what it returned.     *)
(***************************************************************************)
VARIABLES op, c, pgn, pc, piece_ret, fen_ret

vars == <<op, c, pgn, pc, piece_ret, fen_ret>>

Init ==
    /\ pc = "called"
    /\ piece_ret = None
    /\ fen_ret = Pending
    /\ \/ op = "from_char" /\ c \in Chars /\ pgn = << >>
       \/ op = "from_fen" /\ c = 0 /\ pgn \in Inputs
       \/ op = "new" /\ c = 0 /\ pgn = << >>

FromChar ==
    /\ pc = "called" /\ op = "from_char"
    /\ piece_ret' = from_char(c)
    /\ pc' = "returned"
    /\ UNCHANGED <<op, c, pgn, fen_ret>>

FromFen ==
    /\ pc = "called" /\ op = "from_fen"
    /\ fen_ret' = from_fen(pgn)
    /\ pc' = "returned"
    /\ UNCHANGED <<op, c, pgn, piece_ret>>

New ==
    /\ pc = "called" /\ op = "new"
    /\ fen_ret' = new
    /\ pc' = "returned"
    /\ UNCHANGED <<op, c, pgn, piece_ret>>

Next == FromChar \/ FromFen \/ New

Spec == Init /\ [][Next]_vars

(***************************************************************************)
(* Vocabulary of the properties, written independently of the decoder:     *)
(* the table of the twelve piece letters, the piece-placement field and    *)
(* its descriptors by position, and the expansion a descriptor denotes.    *)
(***************************************************************************)
Returned(o) == pc = "returned" /\ op = o

PieceOf ==
    (Ord["P"] :> Piece("Pawn", "White")) @@ (Ord["p"] :> Piece("Pawn", "Black")) @@
    (Ord["R"] :> Piece("Rook", "White")) @@ (Ord["r"] :> Piece("Rook", "Black")) @@
    (Ord["N"] :> Piece("Knight", "White")) @@ (Ord["n"] :> Piece("Knight", "Black")) @@
    (Ord["B"] :> Piece("Bishop", "White")) @@ (Ord["b"] :> Piece("Bishop", "Black")) @@
    (Ord["Q"] :> Piece("Queen", "White")) @@ (Ord["q"] :> Piece("Queen", "Black")) @@
    (Ord["K"] :> Piece("King", "White")) @@ (Ord["k"] :> Piece("King", "Black"))

PieceLetters == DOMAIN PieceOf

Letters == (Ord["A"]..Ord["Z"]) \cup (Ord["a"]..Ord["z"])

RunDigits == Ord["1"]..Ord["8"]

AllDigits == Ord["0"]..Ord["9"]

HasSpace(text) == \E i \in 1..Len(text) : text[i] = Ord[" "]

FirstSpace(text) ==
    CHOOSE i \in 1..Len(text) :
        text[i] = Ord[" "] /\ \A j \in 1..(i - 1) : text[j] # Ord[" "]

Field(text) == LET sp == FirstSpace(text) IN [k \in 1..(sp - 1) |-> text[k]]

MetaTail(text) ==
    LET sp == FirstSpace(text) IN [k \in 1..(Len(text) - sp) |-> text[sp + k]]

Slashes(f) == {i \in 1..Len(f) : f[i] = Ord["/"]}

DescCount(f) == Cardinality(Slashes(f)) + 1

\* the k-th separator of f; 0 and Len(f) + 1 stand for the two ends
Cut(f, k) ==
    LET sl == Slashes(f)
    IN  IF k = 0 THEN 0
        ELSE IF k > Cardinality(sl) THEN Len(f) + 1
        ELSE CHOOSE i \in sl : Cardinality({j \in sl : j < i}) = k - 1

Desc(f, k) ==
    LET lo == Cut(f, k - 1)
        hi == Cut(f, k)
    IN  [n \in 1..(hi - lo - 1) |-> f[lo + n]]

Descs(f) == [k \in 1..DescCount(f) |-> Desc(f, k)]

EmptyRank == [i \in 1..8 |-> None]

\* the squares a descriptor denotes; a letter outside the table gives `other`
RECURSIVE Expand(_, _)
Expand(d, other) ==
    IF d = << >> THEN << >>
    ELSE LET rest == Expand(SubSeq(d, 2, Len(d)), other)
         IN  IF d[1] \in AllDigits THEN [i \in 1..(d[1] - Ord["0"]) |-> None] \o rest
             ELSE IF d[1] \in PieceLetters THEN <<Some(PieceOf[d[1]])>> \o rest
             ELSE IF d[1] \in Letters THEN other \o rest
             ELSE rest

Ranks(f, other) == [k \in 1..8 |-> Expand(Desc(f, k), other)]

WellFormedField(f) ==
    /\ DescCount(f) = 8
    /\ \A i \in 1..Len(f) : f[i] \in PieceLetters \cup RunDigits \cup {Ord["/"]}
    /\ \A k \in 1..8 : Len(Expand(Desc(f, k), << >>)) = 8

WellFormed(text) == HasSpace(text) /\ LET f == Field(text) IN WellFormedField(f)

Malformed == Err("MalformedFen")

(***************************************************************************)
(* C1: for each of the twelve piece letters, Piece::from_char returns a    *)
(* piece (never None) of the kind the letter denotes, of side White iff    *)
(* the letter is uppercase and Black otherwise.                            *)
(***************************************************************************)
C1_PieceLetterDecoded ==
    (Returned("from_char") /\ c \in PieceLetters)
        => /\ piece_ret = Some(PieceOf[c])
           /\ piece_ret[1].color = "White" <=> c \in Ord["A"]..Ord["Z"]

C1_Witness ==
    Returned("from_char") /\ c = Ord["Q"] /\ piece_ret = Some(Piece("Queen", "White"))

(***************************************************************************)
(* C2: for every character that is not one of the twelve piece letters,    *)
(* Piece::from_char returns None.                                          *)
(***************************************************************************)
C2_OtherCharIsNone ==
    (Returned("from_char") /\ c \notin PieceLetters) => piece_ret = None

C2_Witness ==
    Returned("from_char") /\ c = Ord["M"] /\ piece_ret = None

(***************************************************************************)
(* C3: Board::new does not fail and returns the standard initial position  *)
(* with metadata "w KQkq - 0 1".                                           *)
(***************************************************************************)
BackRank(color) ==
    <<Some(Piece("Rook", color)), Some(Piece("Knight", color)),
      Some(Piece("Bishop", color)), Some(Piece("Queen", color)),
      Some(Piece("King", color)), Some(Piece("Bishop", color)),
      Some(Piece("Knight", color)), Some(Piece("Rook", color))>>

PawnRank(color) == [i \in 1..8 |-> Some(Piece("Pawn", color))]

C3_NewIsInitialPosition ==
    Returned("new")
        => fen_ret = Ok(Board(<<BackRank("Black"), PawnRank("Black"),
                                 EmptyRank, EmptyRank, EmptyRank, EmptyRank,
                                 PawnRank("White"), BackRank("White")>>,
                               Str(<<"w"," ","K","Q","k","q"," ","-"," ","0"," ","1">>)))

C3_Witness ==
    Returned("new") /\ fen_ret.kind = "Ok" /\ fen_ret.board.content[8] = BackRank("White")

(***************************************************************************)
(* C4: for every input without a space character, Board::from_fen returns  *)
(* the failure MalformedFen (no board, no panic).                          *)
(***************************************************************************)
C4_NoSpaceIsMalformed ==
    (Returned("from_fen") /\ ~ HasSpace(pgn)) => fen_ret = Malformed

(***************************************************************************)
(* C5: for every input whose piece-placement field has a number of rank    *)
(* descriptors other than 8, Board::from_fen returns the failure           *)
(* MalformedFen (no board, no panic).                                      *)
(***************************************************************************)
C5_RankCountIsMalformed ==
    (Returned("from_fen") /\ HasSpace(pgn) /\ DescCount(Field(pgn)) # 8)
        => fen_ret = Malformed

(***************************************************************************)
(* C6: for every input with exactly 8 rank descriptors of piece letters    *)
(* and digits, one of which contains the digit 0 or 9 or expands to fewer  *)
(* or more than 8 squares, Board::from_fen returns the failure             *)
(* MalformedFen (no board, no panic).                                      *)
(***************************************************************************)
BadDescriptor(d) ==
    \/ \E i \in 1..Len(d) : d[i] \in {Ord["0"], Ord["9"]}
    \/ Len(Expand(d, << >>)) # 8

C6_BadRankIsMalformed ==
    (/\ Returned("from_fen") /\ HasSpace(pgn)
     /\ LET f == Field(pgn)
        IN  /\ DescCount(f) = 8
            /\ \A i \in 1..Len(f) : f[i] \in PieceLetters \cup AllDigits \cup {Ord["/"]}
            /\ \E k \in 1..8 : BadDescriptor(Desc(f, k)))
        => fen_ret = Malformed

(***************************************************************************)
(* C7: whenever Board::from_fen succeeds, the metadata is the input after  *)
(* its first space, character for character (later spaces kept, nothing    *)
(* trimmed, empty when the input ends in its first space).                 *)
(***************************************************************************)
C7_MetadataVerbatim ==
    (Returned("from_fen") /\ fen_ret.kind = "Ok")
        => /\ HasSpace(pgn)
           /\ fen_ret.board.metadata = MetaTail(pgn)

C7_Witness ==
    /\ Returned("from_fen") /\ fen_ret.kind = "Ok"
    /\ fen_ret.board.metadata = Str(<<"-"," ","-">>)

(***************************************************************************)
(* C8: for every well-formed input, Board::from_fen succeeds and rank i is *)
(* the left-to-right expansion of the i-th descriptor (a digit d gives d   *)
(* empty squares, a piece letter one occupied square); the input           *)
(* "8/8/8/8/8/8/8/8 w - - 0 1" gives 64 empty squares and "w - - 0 1".     *)
(***************************************************************************)
C8_WellFormedDecoded ==
    /\ (Returned("from_fen") /\ WellFormed(pgn))
          => fen_ret = Ok(Board(Ranks(Field(pgn), << >>), MetaTail(pgn)))
    /\ (Returned("from_fen") /\ pgn = EMPTY_FEN)
          => fen_ret = Ok(Board([k \in 1..8 |-> EmptyRank],
                                Str(<<"w"," ","-"," ","-"," ","0"," ","1">>)))

C8_Witness ==
    /\ Returned("from_fen") /\ WellFormed(pgn) /\ fen_ret.kind = "Ok"
    /\ Desc(Field(pgn), 3) = Str(<<"p","7">>)
    /\ fen_ret.board.content[3] = <<Some(Piece("Pawn", "Black"))>> \o [i \in 1..7 |-> None]

(***************************************************************************)
(* C9 as stated: a letter the piece decoder does not recognise is skipped, *)
(* so the input decodes like the input with that letter removed.           *)
(***************************************************************************)
HasUnrecognized(text) ==
    HasSpace(text) /\ LET f == Field(text)
                      IN  \E i \in 1..Len(f) : f[i] \in Letters \ PieceLetters

RECURSIVE RemoveUnrecognized(_)
RemoveUnrecognized(f) ==
    IF f = << >> THEN << >>
    ELSE IF f[1] \in Letters \ PieceLetters THEN RemoveUnrecognized(SubSeq(f, 2, Len(f)))
    ELSE <<f[1]>> \o RemoveUnrecognized(SubSeq(f, 2, Len(f)))

UnrecognizedAsOne(f) ==
    [i \in 1..Len(f) |-> IF f[i] \in Letters \ PieceLetters THEN Ord["1"] ELSE f[i]]

C9_UnrecognizedSkipped ==
    (Returned("from_fen") /\ HasUnrecognized(pgn))
        => fen_ret = from_fen(RemoveUnrecognized(Field(pgn)) \o <<Ord[" "]>> \o MetaTail(pgn))

(***************************************************************************)
(* C9 amended: a letter the piece decoder does not recognise appends one   *)
(* empty square, as the digit 1 does: the input decodes like the input     *)
(* with that letter replaced by '1', and on success every rank is the      *)
(* expansion of its descriptor with one empty square for such a letter.    *)
(***************************************************************************)
C9_UnrecognizedIsEmptySquare ==
    (Returned("from_fen") /\ HasUnrecognized(pgn))
        => /\ fen_ret = from_fen(UnrecognizedAsOne(Field(pgn)) \o <<Ord[" "]>> \o MetaTail(pgn))
           /\ fen_ret.kind = "Ok" => fen_ret.board.content = Ranks(Field(pgn), <<None>>)

C9_Witness ==
    /\ Returned("from_fen") /\ HasUnrecognized(pgn) /\ fen_ret.kind = "Ok"
    /\ Desc(Field(pgn), 1) = Str(<<"x","7">>)
    /\ fen_ret.board.content[1] = EmptyRank

(***************************************************************************)
(* C10: a character of a rank descriptor that is neither an ASCII digit    *)
(* nor an ASCII letter adds no square and causes no failure: a well-formed *)
(* input with such characters inserted in its descriptors decodes to the   *)
(* board and metadata of the input without them.                           *)
(***************************************************************************)
Ignored(ch) == ch \notin Letters \cup AllDigits \cup {Ord["/"], Ord[" "]}

RECURSIVE RemoveIgnored(_)
RemoveIgnored(f) ==
    IF f = << >> THEN << >>
    ELSE IF Ignored(f[1]) THEN RemoveIgnored(SubSeq(f, 2, Len(f)))
    ELSE <<f[1]>> \o RemoveIgnored(SubSeq(f, 2, Len(f)))

HasIgnored(text) ==
    HasSpace(text) /\ LET f == Field(text) IN \E i \in 1..Len(f) : Ignored(f[i])

C10_OtherCharIgnored ==
    LET clean == RemoveIgnored(Field(pgn))
    IN  (Returned("from_fen") /\ HasIgnored(pgn) /\ WellFormedField(clean))
            => fen_ret = Ok(Board(Ranks(clean, << >>), MetaTail(pgn)))

C10_Witness ==
    /\ Returned("from_fen") /\ HasIgnored(pgn) /\ fen_ret.kind = "Ok"
    /\ Desc(Field(pgn), 1) = Str(<<"r","n","b","q","-","k","b","n","r">>)
    /\ fen_ret.board.content[1] = BackRank("Black")

====
